---- MODULE Spec2Model ----
(***************************************************************************)
(* Model of wikigit's multi-repository core: the repository registry       *)
(* (RepositoryService), the two sync engines (RepositoryService and        *)
(* MultiRepoGitService) and the scheduler's batch loop (SyncScheduler).    *)
(***************************************************************************)
EXTENDS Integers, Sequences, FiniteSets, TLC

VARIABLES
    repositories,   \* per RepositoryService object: self.repositories (an ordered dict)
    store,          \* the repositories.json file
    clone,          \* per clone directory: the local clone and its remote
    clock,          \* wall clock, read by datetime.now()
    batch,          \* the scheduler's current / last firing
    scheduler,      \* the SyncScheduler object and the settings it reads
    last            \* what the most recent step did and returned

vars == <<repositories, store, clone, clock, batch, scheduler, last>>

----------------------------------------------------------------------------
\* Bounds of the model

MaxCommits == 2     \* cap on commits ahead / behind per repository
MaxClock == 2       \* cap on the number of timestamps handed out
MaxFiles == 1       \* cap on the files a pulled tip commit touches

RepoIds == {"r1", "r2", "r3"}       \* repository ids known to the remote host
RegistryIds == {"r1"}               \* ids the registry operations are called with
SyncIds == {"r1"}                   \* ids the sync engines are exercised on
Names == {"wiki", "docs"}           \* display names
Services == {"api", "sched"}        \* the two RepositoryService objects

----------------------------------------------------------------------------
\* Optional values (Python None / a value)

None == <<>>
Some(v) == <<v>>

\* Text is a sequence of words; the token is one word of it.
Token == "ghp_token"
Redacted == "***TOKEN***"
Contains(text, w) == \E i \in DOMAIN text : text[i] = w

\* settings.multi_repository.github.token is set
TokenConfigured == TRUE

\* str(GitCommandError): the command line and git's stderr, which may or may
\* not spell the URL the command was given
GitErrorText(leak) == IF leak THEN <<"git", "failed", Token>> ELSE <<"git", "failed">>
NoSuchPathText == <<"NoSuchPathError">>
ConfigErrText == <<"config", "locked">>
SaveErrText == <<"OSError">>
OtherErrText == <<"TypeError">>

\* MultiRepoGitService._sanitize_error_message
Sanitize(error_msg) ==
    IF TokenConfigured
    THEN [i \in DOMAIN error_msg |->
            IF error_msg[i] = Token THEN Redacted ELSE error_msg[i]]
    ELSE error_msg

----------------------------------------------------------------------------
\* The registry: an insertion-ordered dict of records keyed by id

Owner(id) == "owner"
RemoteUrl(id) == <<"https://github.com", id>>
LocalPath(id) == <<"root", "repos", id>>

Has(reg, id) == \E i \in DOMAIN reg : reg[i].id = id
Index(reg, id) == CHOOSE i \in DOMAIN reg : reg[i].id = id
Get(reg, id) == reg[Index(reg, id)]
Put(reg, id, rec) ==
    IF Has(reg, id) THEN [reg EXCEPT ![Index(reg, id)] = rec] ELSE Append(reg, rec)
Del(reg, id) == SelectSeq(reg, LAMBDA r : r.id # id)
Ids(reg) == {reg[i].id : i \in DOMAIN reg}
Lookup(reg, id) == IF Has(reg, id) THEN Some(Get(reg, id)) ELSE None
\* the clone directory a local_path names, and the one a registered id points at
Dir(local_path) == local_path[3]
DirOf(reg, id) == IF Has(reg, id) THEN Dir(Get(reg, id).local_path) ELSE id

\* RepositoryService._save_repositories: open(path, "w") then json.dump.
\* "denied": open fails, the file is untouched; "partial": the file was
\* truncated and the dump did not complete.
WriteOutcomes == {"ok", "denied", "partial"}
Save(st, reg, w) ==
    CASE w = "ok" -> [ok |-> TRUE, data |-> reg]
      [] w = "denied" -> st
      [] OTHER -> [ok |-> FALSE, data |-> <<>>]

\* RepositoryService._load_repositories
Load(st) == IF st.ok THEN st.data ELSE <<>>

\* the record add_repository builds
NewRecord(id, name, local_path, enabled, read_only, now) ==
    [id |-> id, name |-> name, owner |-> Owner(id), remote_url |-> RemoteUrl(id),
     local_path |-> local_path, enabled |-> enabled, read_only |-> read_only,
     default_branch |-> "main", last_synced |-> None, sync_status |-> "never",
     error_message |-> None, created_at |-> now]

----------------------------------------------------------------------------
\* A local clone and its remote.
\*   ahead     commits on the local branch that origin/<branch> lacks
\*   behind    commits on origin/<branch> (the tracking ref) the local branch lacks
\*   unfetched commits on the remote that the tracking ref does not have yet
\*   dirty     repo.is_dirty(): index or working tree differs from HEAD
\*   untracked repo.untracked_files is not empty
\*   origin_token  the origin URL in .git/config carries the token

NoClone == [exists |-> FALSE, ahead |-> 0, behind |-> 0, unfetched |-> 0,
            dirty |-> FALSE, untracked |-> FALSE, origin_token |-> FALSE]
FreshClone(with_token) == [NoClone EXCEPT !.exists = TRUE, !.origin_token = with_token]

\* a fetch that leaves the tracking ref where it was
FetchNothing(g) == g

\* origin.fetch(): the tracking ref catches up with the remote
Fetch(g) == [g EXCEPT !.behind = g.behind + g.unfetched, !.unfetched = 0]

\* repo.heads[branch].commit = repo.commit("origin/<branch>"): the branch ref
\* is set to the tracking ref; index and working tree stay as they were, so
\* the index no longer matches HEAD
MoveHead(g) == [g EXCEPT !.ahead = 0, !.behind = 0, !.dirty = TRUE]

\* origin.pull(): merge the tracking ref into the checked-out branch (a
\* fast-forward when nothing is ahead, else a merge commit)
Pull(g) == [g EXCEPT !.behind = 0, !.ahead = IF g.ahead > 0 THEN g.ahead + 1 ELSE 0]

\* git push: accepted only when the remote tip is an ancestor of the branch
PushAccepted(g) == g.behind = 0 /\ g.unfetched = 0
Push(g) == IF PushAccepted(g) THEN [g EXCEPT !.ahead = 0] ELSE g

\* PushInfo.summary as git push --porcelain prints it
PushSummary(g) ==
    IF ~PushAccepted(g) THEN <<"[rejected]", "(non-fast-forward)">>
    ELSE IF g.ahead = 0 THEN <<"[up", "to", "date]">>
    ELSE <<"abc1234..def5678">>

HasLocalChanges(g) == g.dirty \/ g.untracked

----------------------------------------------------------------------------
\* What a step did

NoResult == [status |-> "none", message |-> <<>>, commits_pulled |-> 0,
             commits_pushed |-> 0, files_changed |-> 0, error_message |-> None]
NoEvents == [fetched |-> FALSE, pulled |-> FALSE, pushed |-> FALSE, cloned |-> FALSE]

\* op, svc, id: the call; raised, exc: the exception that left it; result:
\* what it returned; fault: what the environment made fail; ev: the git
\* commands that ran; pre_rec, pre_stored, pre_git: the record in memory, the
\* record in the store and the clone as they were before; at: the time read
Obs(op, svc, id, raised, exc, result, fault, ev, pre_rec, pre_git, at) ==
    [op |-> op, svc |-> svc, id |-> id, raised |-> raised, exc |-> exc,
     result |-> result, fault |-> fault, ev |-> ev,
     pre_rec |-> pre_rec, pre_stored |-> Lookup(store.data, id),
     pre_git |-> pre_git, at |-> at]
\* what a step found in the clone before it ran
Seen(g) == [exists |-> g.exists, has_local_changes |-> HasLocalChanges(g),
            ahead |-> g.ahead, remote_new |-> g.behind + g.unfetched]
EnvObs == Obs("env", "none", "none", FALSE, None, NoResult, "none", NoEvents,
              None, Seen(NoClone), None)

IdleBatch == [running |-> FALSE, listed |-> <<>>, queue |-> <<>>, attempted |-> <<>>,
              raised |-> {}, success_count |-> 0, error_count |-> 0, reindexed |-> 0]

----------------------------------------------------------------------------
\* RepositoryService.sync_repository on a registered id, as a function of the
\* state it reads and of what the environment does to it:
\*   fault  "none", or the step that raises: "config" (opening the repository
\*          or writing its config raises a non-git exception), "fetch",
\*          "merge" (merge_base / moving the ref) and "push" (GitCommandError)
\*   w1, w2 the outcome of the save on the success path and of the save in
\*          the except branch

Faults == {"none", "config", "fetch", "merge", "push"}

\* the failure an attempt met: the git or config fault, else a failed save
Met(fault, w1) == IF fault # "none" THEN fault ELSE IF w1 # "ok" THEN "save" ELSE "none"

SyncResult(status, message, pulled, pushed, files, err) ==
    [status |-> status, message |-> message, commits_pulled |-> pulled,
     commits_pushed |-> pushed, files_changed |-> files, error_message |-> err]

\* a push block that does not look at read_only
RepoPushAlways(rec) == TRUE

\* lines 280-295: the push block
RepoPushAttempted(rec) == ~rec.read_only

\* lines 297-300 and 319-322: the two status writes
\* a success write that leaves last_synced alone
SyncedRecordNoTime(rec, now) ==
    [rec EXCEPT !.sync_status = "synced", !.error_message = None]
SyncedRecord(rec, now) ==
    [rec EXCEPT !.last_synced = Some(now), !.sync_status = "synced",
                !.error_message = None]
\* an error write that forgets the message
ErrorRecordNoMessage(rec, text, now) ==
    [rec EXCEPT !.sync_status = "error", !.last_synced = Some(now)]
ErrorRecord(rec, text, now) ==
    [rec EXCEPT !.sync_status = "error", !.error_message = Some(text),
                !.last_synced = Some(now)]

RepoSync(reg, st, g, id, fault, w1, w2, now) ==
    LET rec == Get(reg, id)
        opened == g.exists /\ fault # "config"
        fetched == opened /\ fault # "fetch"
        g1 == IF fetched THEN Fetch(g) ELSE g
        counted == fetched /\ fault # "merge"
        commits_pulled == IF counted THEN g1.behind ELSE 0
        moved == commits_pulled > 0
        g2 == IF moved THEN MoveHead(g1) ELSE g1
        pushRan == opened /\ RepoPushAttempted(rec) /\ fault # "push"
        push_info == IF pushRan THEN <<PushSummary(g2)>> ELSE <<>>
        g3 == IF pushRan THEN Push(g2) ELSE g2
        commits_pushed ==
            Cardinality({i \in DOMAIN push_info : Contains(push_info[i], "commit")})
        ev == [fetched |-> fetched, pulled |-> moved, pushed |-> pushRan,
               cloned |-> FALSE]
        excText == IF ~g.exists THEN NoSuchPathText
                   ELSE IF fault = "config" THEN ConfigErrText
                   ELSE SaveErrText
        okReg == Put(reg, id, SyncedRecord(rec, now))
        errReg == Put(reg, id, ErrorRecord(rec, excText, now))
        gEnd == IF opened THEN g3 ELSE g
    IN  IF opened /\ w1 = "ok"
        THEN [reg |-> okReg, store |-> Save(st, okReg, w1), git |-> gEnd,
              raised |-> FALSE, exc |-> None, ev |-> ev,
              result |-> SyncResult("success", <<"Sync completed successfully">>,
                                    commits_pulled, commits_pushed, 0, None)]
        ELSE LET st1 == IF opened THEN Save(st, okReg, w1) ELSE st
             IN  IF w2 = "ok"
                 THEN [reg |-> errReg, store |-> Save(st1, errReg, w2), git |-> gEnd,
                       raised |-> FALSE, exc |-> None, ev |-> ev,
                       result |-> SyncResult("error", <<"Sync failed:">> \o excText,
                                             0, 0, 0, None)]
                 ELSE [reg |-> errReg, store |-> Save(st1, errReg, w2), git |-> gEnd,
                       raised |-> TRUE, exc |-> Some(SaveErrText), ev |-> ev,
                       result |-> NoResult]

----------------------------------------------------------------------------
\* The SyncScheduler object (sync_scheduler.py lines 33-37) and the setting
\* multi_repository.enabled that start() reads.
\*   repository_service  initialize() was given a RepositoryService
\*   is_running          self._is_running
\*   started             the AsyncIOScheduler in self.scheduler is running
\*   jobs                the ids of the jobs in its job store
SyncJobId == "sync_all_repositories"
NewScheduler(multi_enabled) ==
    [multi_enabled |-> multi_enabled, repository_service |-> FALSE,
     is_running |-> FALSE, started |-> FALSE, jobs |-> {}]
\* the scheduler after lifespan's initialize() and start()
StartedScheduler ==
    [multi_enabled |-> TRUE, repository_service |-> TRUE,
     is_running |-> TRUE, started |-> TRUE, jobs |-> {SyncJobId}]

----------------------------------------------------------------------------
\* Initial states

\* a fresh installation: no store, no clones, nothing registered
Init ==
    /\ store = [ok |-> TRUE, data |-> <<>>]
    /\ repositories = [s \in Services |-> Load(store)]
    /\ clone = [id \in RepoIds |-> NoClone]
    /\ clock = 0
    /\ batch = IdleBatch
    /\ scheduler = NewScheduler(TRUE)
    /\ last = EnvObs

----------------------------------------------------------------------------
\* Registry operations of a RepositoryService object s

\* add_repository (lines 78-126)
AddRepository(s, id, name, local_path, enabled, read_only, w) ==
    /\ clock < MaxClock
    /\ LET reg == repositories[s]
           now == clock + 1
           reg1 == Put(reg, id, NewRecord(id, name, local_path, enabled, read_only, now))
       IN  /\ repositories' = [repositories EXCEPT ![s] = reg1]
           /\ store' = Save(store, reg1, w)
           /\ clock' = now
           /\ last' = Obs("add", s, id, w # "ok",
                          IF w = "ok" THEN None ELSE Some(SaveErrText),
                          NoResult, "none", NoEvents, Lookup(reg, id), Seen(clone[Dir(local_path)]),
                          Some(now))
    /\ UNCHANGED <<clone, batch, scheduler>>

\* update_repository (lines 128-155)
AllowedUpdates == {"enabled", "read_only", "name"}
\* an update that takes every key of the request body
ApplyUpdateAll(rec, update) ==
    [k \in DOMAIN rec |-> IF k \in DOMAIN update THEN update[k] ELSE rec[k]]
ApplyUpdate(rec, update) ==
    [k \in DOMAIN rec |->
        IF k \in DOMAIN update /\ k \in AllowedUpdates THEN update[k] ELSE rec[k]]
Updates ==
    {[enabled |-> TRUE], [enabled |-> FALSE], [read_only |-> FALSE],
     [read_only |-> TRUE], [name |-> "docs"], [sync_status |-> "synced"]}

UpdateRepository(s, id, update, w) ==
    LET reg == repositories[s]
    IN  /\ IF ~Has(reg, id)
           THEN /\ last' = Obs("update", s, id, TRUE, Some(<<"ValueError">>), NoResult,
                               "none", NoEvents, None, Seen(clone[DirOf(reg, id)]), None)
                /\ UNCHANGED <<repositories, store>>
           ELSE LET reg1 == Put(reg, id, ApplyUpdate(Get(reg, id), update))
                IN  /\ repositories' = [repositories EXCEPT ![s] = reg1]
                    /\ store' = Save(store, reg1, w)
                    /\ last' = Obs("update", s, id, w # "ok",
                                   IF w = "ok" THEN None ELSE Some(SaveErrText),
                                   NoResult, "none", NoEvents, Lookup(reg, id),
                                   Seen(clone[DirOf(reg, id)]), None)
        /\ UNCHANGED <<clone, clock, batch, scheduler>>

\* remove_repository (lines 184-211); rmtree_ok: shutil.rmtree succeeds
RemoveRepository(s, id, rmtree_ok, w) ==
    LET reg == repositories[s]
    IN  /\ IF ~Has(reg, id)
           THEN /\ last' = Obs("remove", s, id, TRUE, Some(<<"ValueError">>), NoResult,
                               "none", NoEvents, None, Seen(clone[DirOf(reg, id)]), None)
                /\ UNCHANGED <<repositories, store, clone>>
           ELSE LET reg1 == Del(reg, id)
                IN  /\ clone' = IF clone[DirOf(reg, id)].exists /\ rmtree_ok
                                THEN [clone EXCEPT ![DirOf(reg, id)] = NoClone] ELSE clone
                    /\ repositories' = [repositories EXCEPT ![s] = reg1]
                    /\ store' = Save(store, reg1, w)
                    /\ last' = Obs("remove", s, id, w # "ok",
                                   IF w = "ok" THEN None ELSE Some(SaveErrText),
                                   NoResult, "none", NoEvents, Lookup(reg, id),
                                   Seen(clone[DirOf(reg, id)]), None)
        /\ UNCHANGED <<clock, batch, scheduler>>

\* clone_repository (lines 334-393), as called by the add_repositories route
\* with the configured token; git refuses to clone into a directory that
\* already holds a clone.  net_ok: the remote answers; leak: the error text
\* spells the URL it was given.
CloneRepository(s, id, net_ok, leak, w) ==
    LET reg == repositories[s]
        cloned == ~clone[id].exists /\ net_ok
        now == clock + 1
        reg1 == Put(reg, id, NewRecord(id, "wiki", LocalPath(id), FALSE, TRUE, now))
    IN  IF cloned
        THEN /\ clock < MaxClock
             /\ clone' = [clone EXCEPT ![id] = FreshClone(TRUE)]
             /\ repositories' = [repositories EXCEPT ![s] = reg1]
             /\ store' = Save(store, reg1, w)
             /\ clock' = now
             /\ last' = Obs("clone", s, id, w # "ok",
                            IF w = "ok" THEN None ELSE Some(SaveErrText),
                            NoResult, "none", [NoEvents EXCEPT !.cloned = TRUE],
                            Lookup(reg, id), Seen(clone[id]), Some(now))
             /\ UNCHANGED <<batch, scheduler>>
        ELSE /\ w = "ok"
             /\ last' = Obs("clone", s, id, TRUE, Some(GitErrorText(leak)), NoResult,
                            "clone", NoEvents, Lookup(reg, id), Seen(clone[id]), None)
             /\ UNCHANGED <<repositories, store, clone, clock, batch, scheduler>>

\* sync_repository (lines 213-332), as called by the sync route
SyncRepository(s, id, fault, w1, w2) ==
    LET reg == repositories[s]
    IN  IF ~Has(reg, id)
        THEN /\ fault = "none" /\ w1 = "ok" /\ w2 = "ok"
             /\ last' = Obs("sync", s, id, TRUE, Some(<<"ValueError">>), NoResult,
                            "none", NoEvents, None, Seen(clone[DirOf(reg, id)]), None)
             /\ UNCHANGED <<repositories, store, clone, clock, batch, scheduler>>
        ELSE /\ clock < MaxClock
             /\ LET r == RepoSync(reg, store, clone[DirOf(reg, id)], id, fault, w1, w2, clock + 1)
                IN  /\ repositories' = [repositories EXCEPT ![s] = r.reg]
                    /\ store' = r.store
                    /\ clone' = [clone EXCEPT ![DirOf(reg, id)] = r.git]
                    /\ clock' = clock + 1
                    /\ last' = Obs("sync", s, id, r.raised, r.exc, r.result,
                                   Met(fault, w1), r.ev, Lookup(reg, id), Seen(clone[DirOf(reg, id)]), Some(clock + 1))
             /\ UNCHANGED <<batch, scheduler>>

----------------------------------------------------------------------------
\* The environment of a clone: the article routes write files and commit
\* them, and other people push to the remote

\* articles.py update_article: article_path.write_text on a tracked file
LocalEdit(id) ==
    /\ clone[id].exists /\ ~clone[id].dirty
    /\ clone' = [clone EXCEPT ![id].dirty = TRUE]
    /\ last' = EnvObs
    /\ UNCHANGED <<repositories, store, clock, batch, scheduler>>

\* articles.py create_article: article_path.write_text of a new file
LocalNewFile(id) ==
    /\ clone[id].exists /\ ~clone[id].untracked
    /\ clone' = [clone EXCEPT ![id].untracked = TRUE]
    /\ last' = EnvObs
    /\ UNCHANGED <<repositories, store, clock, batch, scheduler>>

\* GitService.add_and_commit: stage and commit what was written
LocalCommit(id) ==
    /\ clone[id].exists /\ HasLocalChanges(clone[id])
    /\ clone[id].ahead < MaxCommits
    /\ clone' = [clone EXCEPT ![id].ahead = @ + 1, ![id].dirty = FALSE,
                              ![id].untracked = FALSE]
    /\ last' = EnvObs
    /\ UNCHANGED <<repositories, store, clock, batch, scheduler>>

\* somebody else pushes a commit to the remote
RemoteCommit(id) ==
    /\ clone[id].exists
    /\ clone[id].behind + clone[id].unfetched < MaxCommits
    /\ clone' = [clone EXCEPT ![id].unfetched = @ + 1]
    /\ last' = EnvObs
    /\ UNCHANGED <<repositories, store, clock, batch, scheduler>>

Environment(ids) ==
    \E id \in ids :
        \/ LocalEdit(id)
        \/ LocalNewFile(id)
        \/ LocalCommit(id)
        \/ RemoteCommit(id)

----------------------------------------------------------------------------
\* MultiRepoGitService

\* _inject_token_into_url: the URL carries the token afterwards
InjectsToken(remote_url) == TokenConfigured /\ remote_url[1] = "https://github.com"

\* clone_repository (lines 52-109); outcome: what Repo.clone_from does
CloneOutcomes == {"ok", "git", "other"}
MultiClone(id, outcome, leak) ==
    LET g == clone[id]
        done(result, ev) ==
            last' = Obs("multi_clone", "multi", id, FALSE, None, result, outcome, ev,
                        Lookup(repositories["api"], id), Seen(g), None)
    IN  /\ IF g.exists
           THEN /\ outcome = "ok" /\ ~leak
                /\ done(SyncResult("success", <<>>, 0, 0, 0, None), NoEvents)
                /\ UNCHANGED clone
           ELSE CASE outcome = "ok" ->
                     /\ ~leak
                     /\ clone' = [clone EXCEPT
                                    ![id] = FreshClone(InjectsToken(RemoteUrl(id)))]
                     /\ done(SyncResult("success", <<>>, 0, 0, 0, None),
                             [NoEvents EXCEPT !.cloned = TRUE])
                  [] outcome = "git" ->
                     /\ done(SyncResult("error", <<>>, 0, 0, 0,
                                        Some(Sanitize(GitErrorText(leak)))), NoEvents)
                     /\ UNCHANGED clone
                  [] OTHER ->
                     /\ ~leak
                     /\ done(SyncResult("error", <<>>, 0, 0, 0, Some(OtherErrText)),
                             NoEvents)
                     /\ UNCHANGED clone
        /\ UNCHANGED <<repositories, store, clock, batch, scheduler>>

\* sync_repository (lines 111-320) for the repo_config of a registered record.
\*   fault  "none", or the step that raises if it runs: "fetch", "pull", "push"
\*          (GitCommandError) or "other" (a non-git exception after the fetch)
\*   leak   the git error text spells the URL
\*   nfiles the files the pulled tip commit touches
MultiFaults == {"none", "fetch", "other", "pull", "push"}

\* line 217: the conflict rule
Conflict(has_local_changes, commits_behind) == has_local_changes /\ commits_behind > 0
\* line 261: push if ahead and not read-only
MultiPushDue(commits_ahead, read_only) == commits_ahead > 0 /\ ~read_only

MultiSyncRun(rec, g, fault, leak, nfiles) ==
    LET g0 == [g EXCEPT !.origin_token = InjectsToken(rec.remote_url)]
        g1 == Fetch(g0)
        has_local_changes == HasLocalChanges(g1)
        commits_behind == g1.behind
        commits_ahead == g1.ahead
        pullDue == commits_behind > 0
        g2 == IF pullDue THEN Pull(g1) ELSE g1
        commits_pulled == IF pullDue THEN commits_behind ELSE 0
        files_changed == IF pullDue THEN nfiles ELSE 0
        pushDue == MultiPushDue(commits_ahead, rec.read_only)
        g3 == IF pushDue THEN Push(g2) ELSE g2
        commits_pushed == IF pushDue THEN commits_ahead ELSE 0
        gitErr == Some(Sanitize(GitErrorText(leak)))
        ev(f, pl, ps) == [fetched |-> f, pulled |-> pl, pushed |-> ps, cloned |-> FALSE]
    IN  IF ~g.exists
        THEN [git |-> g, ev |-> NoEvents,
              result |-> SyncResult("error", <<"Repository not cloned locally">>, 0, 0, 0,
                             Some(<<"Local repository does not exist. Clone it first.">>))]
        ELSE IF fault = "fetch"
        THEN [git |-> g0, ev |-> NoEvents,
              result |-> SyncResult("error", <<"Git operation failed">>, 0, 0, 0, gitErr)]
        ELSE IF fault = "other"
        THEN [git |-> g1, ev |-> ev(TRUE, FALSE, FALSE),
              result |-> SyncResult("error", <<"Sync failed">>, 0, 0, 0,
                                    Some(OtherErrText))]
        ELSE IF Conflict(has_local_changes, commits_behind)
        THEN [git |-> g1, ev |-> ev(TRUE, FALSE, FALSE),
              result |-> SyncResult("conflict",
                             <<"Conflict detected: local and remote changes present">>,
                             0, 0, 0, Some(<<"Cannot sync">>))]
        ELSE IF pullDue /\ fault = "pull"
        THEN [git |-> g1, ev |-> ev(TRUE, FALSE, FALSE),
              result |-> SyncResult("error", <<"Pull failed">>, 0, 0, 0, gitErr)]
        ELSE IF pushDue /\ fault = "push"
        THEN [git |-> g2, ev |-> ev(TRUE, pullDue, FALSE),
              result |-> SyncResult("error", <<"Push failed">>, commits_pulled, 0,
                                    files_changed, gitErr)]
        ELSE [git |-> g3, ev |-> ev(TRUE, pullDue, pushDue),
              result |-> SyncResult("success",
                             IF commits_pulled = 0 /\ commits_pushed = 0
                             THEN <<"Repository is up to date">>
                             ELSE <<"Synced successfully">>,
                             commits_pulled, commits_pushed, files_changed, None)]

MultiSync(id, fault, leak, nfiles) ==
    /\ Has(repositories["api"], id)
    /\ LET rec == Get(repositories["api"], id)
           r == MultiSyncRun(rec, clone[Dir(rec.local_path)], fault, leak, nfiles)
       IN  /\ r.git.ahead <= MaxCommits
           /\ clone' = [clone EXCEPT ![Dir(rec.local_path)] = r.git]
           /\ last' = Obs("multi_sync", "multi", id, FALSE, None, r.result, fault, r.ev,
                          Some(rec), Seen(clone[Dir(rec.local_path)]), None)
    /\ UNCHANGED <<repositories, store, clock, batch, scheduler>>

----------------------------------------------------------------------------
\* The registry's life cycle through the interactive API (the module-level
\* RepositoryService object) on a fresh installation

Next ==
    \/ \E id \in RegistryIds, net_ok \in BOOLEAN, leak \in BOOLEAN, w \in WriteOutcomes :
           CloneRepository("api", id, net_ok, leak, w)
    \/ \E id \in RegistryIds, enabled \in BOOLEAN, read_only \in BOOLEAN,
          w \in WriteOutcomes :
           AddRepository("api", id, "wiki", LocalPath(id), enabled, read_only, w)
    \/ \E id \in RegistryIds, update \in Updates, w \in WriteOutcomes :
           UpdateRepository("api", id, update, w)
    \/ \E id \in RegistryIds, rmtree_ok \in BOOLEAN, w \in WriteOutcomes :
           RemoveRepository("api", id, rmtree_ok, w)
    \/ \E id \in RegistryIds, fault \in Faults, w1 \in WriteOutcomes,
          w2 \in WriteOutcomes :
           SyncRepository("api", id, fault, w1, w2)
    \/ \E id \in RegistryIds, outcome \in CloneOutcomes, leak \in BOOLEAN :
           MultiClone(id, outcome, leak)

Spec == Init /\ [][Next]_vars

----------------------------------------------------------------------------
\* The sync engines on a repository that was cloned and registered through
\* the API, with people editing locally and pushing to the remote

InitSync ==
    /\ \E read_only \in BOOLEAN :
           store = [ok |-> TRUE,
                    data |-> <<NewRecord("r1", "wiki", LocalPath("r1"), TRUE, read_only, 0)>>]
    /\ repositories = [s \in Services |-> IF s = "api" THEN Load(store) ELSE <<>>]
    /\ clone = [id \in RepoIds |-> IF id \in SyncIds THEN FreshClone(TRUE) ELSE NoClone]
    /\ clock = 0
    /\ batch = IdleBatch
    /\ scheduler = NewScheduler(TRUE)
    /\ last = EnvObs

NextSync ==
    \/ \E id \in SyncIds, fault \in Faults, w1 \in {"ok", "denied"},
          w2 \in {"ok", "denied"} :
           /\ w1 = "ok" => w2 = "ok"
           /\ SyncRepository("api", id, fault, w1, w2)
    \/ \E id \in SyncIds, fault \in MultiFaults, leak \in BOOLEAN, nfiles \in 0..MaxFiles :
           /\ leak => fault \in {"fetch", "pull", "push"}
           /\ MultiSync(id, fault, leak, nfiles)
    \/ Environment(SyncIds)

SpecSync == InitSync /\ [][NextSync]_vars

----------------------------------------------------------------------------
\* SyncScheduler: the recurring job _sync_all_repositories on the
\* RepositoryService object main.py builds for it

\* a listing that keeps every record
EnabledIdsAll(reg) == [i \in DOMAIN reg |-> reg[i].id]

\* lines 110-124: list the registry, keep the enabled records
EnabledIds(reg) ==
    LET en == SelectSeq(reg, LAMBDA r : r.enabled)
    IN  [i \in DOMAIN en |-> en[i].id]

\* a job that is started again while a run of it is in progress
FiringStartsAnyTime == TRUE

\* the job is a coroutine on the event loop of AsyncIOScheduler and it never
\* suspends: sync_repository is a plain call, and the one await (line 151)
\* is of _reindex_repository, which awaits nothing.  The loop runs nothing
\* else, the scheduler's own wake-up included, until a run has returned.
FiringStarts == ~batch.running

Fire ==
    /\ scheduler.started /\ SyncJobId \in scheduler.jobs
    /\ FiringStarts
    /\ LET enabled_repos == EnabledIds(repositories["sched"])
       IN  batch' = [IdleBatch EXCEPT !.running = enabled_repos # <<>>,
                                      !.listed = enabled_repos,
                                      !.queue = enabled_repos]
    /\ last' = Obs("fire", "sched", "none", FALSE, None, NoResult, "none", NoEvents,
                   None, Seen(NoClone), None)
    /\ UNCHANGED <<repositories, store, clone, clock, scheduler>>

\* an exception that ends the loop
AfterRaiseAbort(b, repo_id) ==
    [b EXCEPT !.queue = <<>>,
              !.attempted = Append(b.attempted, repo_id),
              !.raised = b.raised \cup {repo_id},
              !.error_count = b.error_count + 1,
              !.running = FALSE]

\* lines 159-161: an exception of one repository is counted, the loop goes on
AfterRaise(b, repo_id) ==
    [b EXCEPT !.queue = Tail(b.queue),
              !.attempted = Append(b.attempted, repo_id),
              !.raised = b.raised \cup {repo_id},
              !.error_count = b.error_count + 1,
              !.running = Tail(b.queue) # <<>>]

\* lines 142-157: count the result, re-index when files changed
AfterResult(b, repo_id, result) ==
    [b EXCEPT !.queue = Tail(b.queue),
              !.attempted = Append(b.attempted, repo_id),
              !.success_count = IF result.status = "success" THEN @ + 1 ELSE @,
              !.error_count = IF result.status = "success" THEN @ ELSE @ + 1,
              !.reindexed = IF result.status = "success" /\ result.files_changed > 0
                            THEN @ + 1 ELSE @,
              !.running = Tail(b.queue) # <<>>]

\* lines 130-161: one iteration of the loop over enabled_repos
BatchStep(fault, w1, w2) ==
    /\ batch.running
    /\ UNCHANGED scheduler
    /\ LET repo_id == Head(batch.queue)
           reg == repositories["sched"]
       IN  IF ~Has(reg, repo_id)
           THEN /\ fault = "none" /\ w1 = "ok" /\ w2 = "ok"
                /\ batch' = AfterRaise(batch, repo_id)
                /\ last' = Obs("sync", "sched", repo_id, TRUE, Some(<<"ValueError">>),
                               NoResult, "none", NoEvents, None, Seen(clone[DirOf(reg, repo_id)]),
                               None)
                /\ UNCHANGED <<repositories, store, clone, clock>>
           ELSE /\ clock < MaxClock
                /\ LET r == RepoSync(reg, store, clone[DirOf(reg, repo_id)], repo_id, fault, w1, w2,
                                     clock + 1)
                   IN  /\ repositories' = [repositories EXCEPT !["sched"] = r.reg]
                       /\ store' = r.store
                       /\ clone' = [clone EXCEPT ![DirOf(reg, repo_id)] = r.git]
                       /\ clock' = clock + 1
                       /\ batch' = IF r.raised THEN AfterRaise(batch, repo_id)
                                   ELSE AfterResult(batch, repo_id, r.result)
                       /\ last' = Obs("sync", "sched", repo_id, r.raised, r.exc, r.result,
                                      Met(fault, w1), r.ev, Lookup(reg, repo_id),
                                      Seen(clone[DirOf(reg, repo_id)]), Some(clock + 1))

\* a deployment restarted with three repositories registered and cloned;
\* both RepositoryService objects load the same store
InitSched ==
    /\ \E enabled \in SUBSET RepoIds, writable \in SUBSET SyncIds :
           store = [ok |-> TRUE,
                    data |-> <<NewRecord("r1", "wiki", LocalPath("r1"), "r1" \in enabled,
                                         "r1" \notin writable, 0),
                               NewRecord("r2", "wiki", LocalPath("r2"),
                                         "r2" \in enabled, TRUE, 0),
                               NewRecord("r3", "wiki", LocalPath("r3"),
                                         "r3" \in enabled, TRUE, 0)>>]
    /\ repositories = [s \in Services |-> Load(store)]
    /\ clone = [id \in RepoIds |-> FreshClone(TRUE)]
    /\ clock = 0
    /\ batch = IdleBatch
    /\ scheduler = StartedScheduler
    /\ last = EnvObs

NextSched ==
    \/ Fire
    \/ \E fault \in Faults, w1 \in {"ok", "denied"}, w2 \in {"ok", "denied"} :
           /\ w1 = "ok" => w2 = "ok"
           /\ BatchStep(fault, w1, w2)
    \/ \E id \in SyncIds : LocalEdit(id) \/ RemoteCommit(id)

SpecSched == InitSched /\ [][NextSched]_vars

----------------------------------------------------------------------------
\* SyncScheduler.initialize, start and stop.  They are plain functions called
\* on the event loop (main.py lifespan), and _sync_all_repositories never
\* suspends (it awaits only _reindex_repository, which awaits nothing), so
\* none of them runs while a firing is in progress.

LoopIdle == ~batch.running

SchedObs(op, status) ==
    Obs(op, "sched", "none", FALSE, None, [NoResult EXCEPT !.status = status], "none",
        NoEvents, None, Seen(NoClone), None)

\* initialize (lines 39-47)
Initialize ==
    /\ LoopIdle
    /\ scheduler' = [scheduler EXCEPT !.repository_service = TRUE]
    /\ last' = SchedObs("initialize", "initialized")
    /\ UNCHANGED <<repositories, store, clone, clock, batch>>

\* a start() without the check of the feature flag
StartBranchIgnoresFlag(sch) ==
    CASE ~sch.repository_service -> "uninitialized"
      [] sch.is_running -> "already"
      [] OTHER -> "started"

\* start (lines 55-65): the three early returns, in order
StartBranch(sch) ==
    CASE ~sch.multi_enabled -> "disabled"
      [] ~sch.repository_service -> "uninitialized"
      [] sch.is_running -> "already"
      [] OTHER -> "started"

\* lines 70-81: add_job(..., id=SyncJobId, replace_existing=True), start
AddJobAndStart(sch) ==
    [sch EXCEPT !.jobs = @ \cup {SyncJobId}, !.started = TRUE, !.is_running = TRUE]

\* start (lines 49-85)
Start ==
    /\ LoopIdle
    /\ LET branch == StartBranch(scheduler)
       IN  /\ scheduler' = IF branch = "started" THEN AddJobAndStart(scheduler)
                           ELSE scheduler
           /\ last' = SchedObs("start", branch)
    /\ UNCHANGED <<repositories, store, clone, clock, batch>>

\* a shutdown that leaves the scheduler going
ShutdownNothing(sch, jobs_left) == sch

\* lines 93-94: scheduler.shutdown(wait=True) stops the AsyncIOScheduler;
\* jobs_left: what its job store holds afterwards
Shutdown(sch, jobs_left) ==
    [sch EXCEPT !.started = FALSE, !.jobs = jobs_left, !.is_running = FALSE]

\* stop (lines 87-95)
Stop ==
    /\ LoopIdle
    /\ IF ~scheduler.is_running
       THEN /\ scheduler' = scheduler
            /\ last' = SchedObs("stop", "not_running")
       ELSE \E jobs_left \in {scheduler.jobs, {}} :
                /\ scheduler' = Shutdown(scheduler, jobs_left)
                /\ last' = SchedObs("stop", "stopped")
    /\ UNCHANGED <<repositories, store, clone, clock, batch>>

----------------------------------------------------------------------------
\* The status queries

\* a status query that refreshes the tracking ref first
OpenRepoFetches(g) == Fetch(g)

\* Repo(path) and the queries on it (is_dirty, untracked_files, iter_commits,
\* active_branch) only read the clone
OpenRepo(g) == g

StatusResult(report) ==
    [status |-> "status", message |-> <<>>, commits_pulled |-> 0, commits_pushed |-> 0,
     files_changed |-> 0, error_message |-> None, report |-> report]

\* RepositoryService.get_repository_status (lines 395-461): the record's
\* fields, is_dirty() and the commits between HEAD and origin/<branch>
RepoStatus(rec, g) ==
    [exists |-> g.exists,
     sync_status |-> rec.sync_status,
     has_local_changes |-> g.exists /\ g.dirty,
     ahead_of_remote |-> IF g.exists THEN g.ahead ELSE 0,
     behind_of_remote |-> IF g.exists THEN g.behind ELSE 0]

GetRepositoryStatus(s, id) ==
    LET reg == repositories[s]
        dir == DirOf(reg, id)
    IN  /\ IF ~Has(reg, id)
           THEN /\ last' = Obs("status", s, id, TRUE, Some(<<"ValueError">>), NoResult,
                               "none", NoEvents, None, Seen(clone[dir]), None)
                /\ UNCHANGED clone
           ELSE /\ clone' = [clone EXCEPT ![dir] = OpenRepo(clone[dir])]
                /\ last' = Obs("status", s, id, FALSE, None,
                               StatusResult(RepoStatus(Get(reg, id), clone[dir])),
                               "none", NoEvents, Lookup(reg, id), Seen(clone[dir]), None)
        /\ UNCHANGED <<repositories, store, clock, batch, scheduler>>

\* MultiRepoGitService.get_repository_status (lines 322-402) for the
\* repo_config of a registered record
MultiStatus(rec, g) ==
    [exists |-> g.exists,
     sync_status |-> rec.sync_status,
     has_local_changes |-> g.exists /\ HasLocalChanges(g),
     ahead_of_remote |-> IF g.exists THEN g.ahead ELSE 0,
     behind_of_remote |-> IF g.exists THEN g.behind ELSE 0]

MultiGetStatus(id) ==
    /\ Has(repositories["api"], id)
    /\ LET rec == Get(repositories["api"], id)
           dir == Dir(rec.local_path)
       IN  /\ clone' = [clone EXCEPT ![dir] = OpenRepo(clone[dir])]
           /\ last' = Obs("multi_status", "multi", id, FALSE, None,
                          StatusResult(MultiStatus(rec, clone[dir])),
                          "none", NoEvents, Some(rec), Seen(clone[dir]), None)
    /\ UNCHANGED <<repositories, store, clock, batch, scheduler>>

----------------------------------------------------------------------------
\* The registry operations on two ids and two clone directories, on a fresh
\* installation or on one restarted with what an earlier run left behind: r1
\* registered and synced, its clone with an uncommitted edit, one commit
\* waiting on the remote

RegIds == {"r1", "r2"}
RegPaths == {LocalPath(id) : id \in RegIds}

EarlierRecord == SyncedRecord(NewRecord("r1", "wiki", LocalPath("r1"), TRUE, FALSE, 0), 0)
EarlierClone == [FreshClone(TRUE) EXCEPT !.dirty = TRUE, !.unfetched = 1]

\* request bodies of the update route: an allowed key, and an allowed key
\* beside one that is not
RegUpdates ==
    {[enabled |-> FALSE], [name |-> "docs", sync_status |-> "never"]}

InitReg ==
    /\ \E earlier \in BOOLEAN :
           /\ store = [ok |-> TRUE,
                       data |-> IF earlier THEN <<EarlierRecord>> ELSE <<>>]
           /\ clone = [id \in RepoIds |->
                          IF earlier /\ id = "r1" THEN EarlierClone ELSE NoClone]
    /\ repositories = [s \in Services |-> IF s = "api" THEN Load(store) ELSE <<>>]
    /\ clock = 0
    /\ batch = IdleBatch
    /\ scheduler = NewScheduler(TRUE)
    /\ last = EnvObs

NextReg ==
    \/ \E id \in RegIds, local_path \in RegPaths :
           AddRepository("api", id, "wiki", local_path, TRUE, TRUE, "ok")
    \/ \E id \in RegIds, net_ok \in BOOLEAN :
           CloneRepository("api", id, net_ok, FALSE, "ok")
    \/ \E id \in RegIds, update \in RegUpdates :
           UpdateRepository("api", id, update, "ok")
    \/ \E id \in RegIds, rmtree_ok \in BOOLEAN :
           RemoveRepository("api", id, rmtree_ok, "ok")
    \/ \E id \in RegIds :
           SyncRepository("api", id, "none", "ok", "ok")
    \/ \E id \in RegIds : GetRepositoryStatus("api", id)
    \/ \E id \in RegIds : MultiGetStatus(id)

SpecReg == InitReg /\ [][NextReg]_vars

----------------------------------------------------------------------------
\* The scheduler's life cycle: a SyncScheduler just constructed, the feature
\* on or off, over a registry of two cloned repositories

LifeIds == {"r1", "r2"}

InitLife ==
    /\ \E enabled \in SUBSET LifeIds :
           store = [ok |-> TRUE,
                    data |-> <<NewRecord("r1", "wiki", LocalPath("r1"),
                                         "r1" \in enabled, TRUE, 0),
                               NewRecord("r2", "wiki", LocalPath("r2"),
                                         "r2" \in enabled, TRUE, 0)>>]
    /\ repositories = [s \in Services |-> Load(store)]
    /\ clone = [id \in RepoIds |-> IF id \in LifeIds THEN FreshClone(TRUE) ELSE NoClone]
    /\ clock = 0
    /\ batch = IdleBatch
    /\ \E multi_enabled \in BOOLEAN : scheduler = NewScheduler(multi_enabled)
    /\ last = EnvObs

NextLife ==
    \/ Initialize
    \/ Start
    \/ Stop
    \/ Fire
    \/ \E fault \in {"none", "config"} : BatchStep(fault, "ok", "ok")
    \/ \E id \in LifeIds : RemoteCommit(id)

SpecLife == InitLife /\ [][NextLife]_vars

----------------------------------------------------------------------------
\* Properties

SyncOps == {"sync", "multi_sync"}
Range(seq) == {seq[i] : i \in DOMAIN seq}

\* the attempt found an uncommitted change and, after a fetch that worked,
\* commits on the tracking ref that the local branch lacks
ConflictFound ==
    /\ last.op \in SyncOps
    /\ last.pre_git.exists
    /\ last.pre_git.has_local_changes
    /\ last.pre_git.remote_new > 0

\* C1: a sync attempt of either engine that starts with local changes and is
\* behind after the fetch returns "conflict" and neither pulls nor pushes
\* (the local branch tip stays where it was).
C1_ConflictRule ==
    (ConflictFound /\ last.fault = "none" /\ last.ev.fetched)
        => /\ last.result.status = "conflict"
           /\ ~last.ev.pulled
           /\ ~last.ev.pushed

\* C2: after a sync attempt on a registered repository with an uncommitted
\* edit and a new remote commit, the record's sync_status is not "synced".
C2_ConflictNotSynced ==
    (ConflictFound /\ last.op = "sync" /\ last.pre_rec # None)
        => Get(repositories[last.svc], last.id).sync_status # "synced"

\* C3: an exception raised while one repository is synced stays inside the
\* loop: at every point of a firing the repositories attempted so far followed
\* by those still queued are the enabled repositories listed at its start, in
\* order, and the firing ends only when none is queued.
C3_BatchContainment ==
    /\ batch.attempted \o batch.queue = batch.listed
    /\ batch.raised \subseteq Range(batch.attempted)
    /\ ~batch.running => batch.queue = <<>>
    /\ Cardinality(Range(batch.listed)) = Len(batch.listed)

\* a firing is over in which the first repository raised and the ones after
\* it were attempted all the same
C3_Witness ==
    /\ ~batch.running
    /\ Len(batch.attempted) >= 2
    /\ batch.attempted[1] \in batch.raised
    /\ batch.attempted = batch.listed

\* the fetch, the pull or the push of the attempt raised
GitStepFailed ==
    /\ last.op \in SyncOps
    /\ last.pre_git.exists
    /\ \/ last.fault = "fetch"
       \/ last.op = "sync" /\ last.fault = "merge"
       \/ last.op = "sync" /\ last.fault = "push" /\ ~last.pre_rec[1].read_only
       \/ last.op = "multi_sync" /\ last.fault = "pull"
             /\ last.pre_git.remote_new > 0 /\ ~last.pre_git.has_local_changes
       \/ last.op = "multi_sync" /\ last.fault = "push"
             /\ last.pre_git.ahead > 0 /\ ~last.pre_rec[1].read_only
             /\ ~(last.pre_git.remote_new > 0 /\ last.pre_git.has_local_changes)

\* C4: when the fetch, the pull or the push of a sync attempt raises, the
\* attempt returns "error" and the registry record ends with sync_status
\* "error", an error_message and last_synced set to the attempt time.
C4_FailurePath ==
    GitStepFailed
        => /\ last.result.status = "error"
           /\ last.op = "sync" =>
                LET rec == Get(repositories[last.svc], last.id)
                IN  /\ rec.sync_status = "error"
                    /\ rec.error_message # None
                    /\ rec.last_synced = last.at

\* C5: no error text that leaves a clone or a sync (the exception, the
\* result's message and error_message, the error_message kept in the
\* registry and in the store) contains the token.
C5_NoTokenInErrors ==
    /\ last.exc # None => ~Contains(last.exc[1], Token)
    /\ ~Contains(last.result.message, Token)
    /\ last.result.error_message # None => ~Contains(last.result.error_message[1], Token)
    /\ \A s \in Services : \A i \in DOMAIN repositories[s] :
           repositories[s][i].error_message # None
               => ~Contains(repositories[s][i].error_message[1], Token)
    /\ \A i \in DOMAIN store.data :
           store.data[i].error_message # None
               => ~Contains(store.data[i].error_message[1], Token)

\* C6: a sync attempt on a read-only record never pushes; with commits ahead,
\* nothing new on the remote and no failure it returns "success" with
\* commits_pushed = 0.
C6_ReadOnlyNeverPushed ==
    (last.op \in SyncOps /\ last.pre_rec # None /\ last.pre_rec[1].read_only)
        => /\ ~last.ev.pushed
           /\ last.result.commits_pushed = 0
           /\ (/\ last.fault = "none"
               /\ last.pre_git.exists
               /\ last.pre_git.ahead > 0
               /\ last.pre_git.remote_new = 0) => last.result.status = "success"

C6_Witness ==
    /\ last.op = "multi_sync"
    /\ last.pre_rec # None /\ last.pre_rec[1].read_only
    /\ last.fault = "none"
    /\ last.pre_git.ahead > 0 /\ last.pre_git.remote_new = 0
    /\ last.result.status = "success"
    /\ clone[last.id].ahead > 0

\* the attempt found a clean tree, nothing ahead and new remote commits, and
\* nothing failed
CleanAndBehind ==
    /\ last.op \in SyncOps
    /\ last.fault = "none"
    /\ last.pre_git.exists
    /\ ~last.pre_git.has_local_changes
    /\ last.pre_git.ahead = 0
    /\ last.pre_git.remote_new > 0

\* C7: a sync of a clean repository with nothing ahead and k > 0 new remote
\* commits returns "success" with commits_pulled = k and commits_pushed = 0,
\* and RepositoryService leaves the record "synced", without error_message,
\* with last_synced set to the attempt time.
C7_SuccessfulPull ==
    CleanAndBehind
        => /\ last.result.status = "success"
           /\ last.result.commits_pulled = last.pre_git.remote_new
           /\ last.result.commits_pushed = 0
           /\ last.op = "sync" =>
                LET rec == Get(repositories[last.svc], last.id)
                IN  /\ rec.sync_status = "synced"
                    /\ rec.error_message = None
                    /\ rec.last_synced = last.at
                    /\ rec.last_synced # None

C7_Witness ==
    /\ CleanAndBehind
    /\ last.op = "sync"
    /\ last.pre_rec[1].sync_status = "error"
    /\ last.result.commits_pulled = MaxCommits
    /\ Get(repositories[last.svc], last.id).sync_status = "synced"

\* C8: every record, in memory and in the store, has an error_message if and
\* only if its sync_status is "error".
ErrorIffMessage(rec) == (rec.error_message # None) <=> (rec.sync_status = "error")
C8_ErrorMessageIffError ==
    /\ \A s \in Services : \A i \in DOMAIN repositories[s] :
           ErrorIffMessage(repositories[s][i])
    /\ \A i \in DOMAIN store.data : ErrorIffMessage(store.data[i])

C8_Witness ==
    /\ last.op = "sync"
    /\ \E i \in DOMAIN store.data :
           /\ store.data[i].sync_status = "error"
           /\ store.data[i].error_message # None
           /\ store.data[i].enabled

\* C9: a clone called while the local path already holds a clone returns
\* success without cloning again and leaves the registry record as it was.
C9_CloneIdempotent ==
    (last.op \in {"clone", "multi_clone"} /\ last.pre_git.exists)
        => /\ ~last.raised
           /\ last.op = "multi_clone" => last.result.status = "success"
           /\ ~last.ev.cloned
           /\ Lookup(repositories["api"], last.id) = last.pre_rec

\* C10: add with an id that is already registered fails and leaves the
\* existing record, in memory and in the store, as it was.
C10_AddDuplicateFails ==
    (last.op = "add" /\ last.pre_rec # None)
        => /\ last.raised
           /\ Lookup(repositories[last.svc], last.id) = last.pre_rec
           /\ Lookup(store.data, last.id) = last.pre_stored

C12_UpdateFrame ==
    [][last'.op = "update" =>
         LET old == repositories[last'.svc]
             new == repositories'[last'.svc]
             id == last'.id
         IN  /\ ~Has(old, id) =>
                   /\ last'.raised
                   /\ UNCHANGED <<repositories, store, clone>>
             /\ Has(old, id) =>
                   /\ Has(new, id)
                   /\ \A k \in DOMAIN Get(old, id) \ {"enabled", "read_only", "name"} :
                          Get(new, id)[k] = Get(old, id)[k]
                   /\ \A other \in (Ids(old) \cup Ids(new)) \ {id} :
                          Lookup(new, other) = Lookup(old, other)
                   /\ UNCHANGED clone
      ]_vars

\* an update whose body named name and sync_status renamed the record beside
\* another record and left its sync_status alone
C12_Witness ==
    /\ last.op = "update" /\ ~last.raised /\ last.pre_rec # None
    /\ Len(repositories["api"]) = 2
    /\ last.pre_rec[1].name = "wiki"
    /\ last.pre_rec[1].sync_status = "synced"
    /\ Get(repositories["api"], last.id).name = "docs"
    /\ Get(repositories["api"], last.id).sync_status = "synced"

\* C13: a record is created with sync_status "never", and add, update, clone
\* and the status queries leave the sync_status of an existing record as it
\* was.
C13_SyncStatusFrame ==
    LET reg == repositories["api"]
    IN  /\ (/\ last.op \in {"add", "clone"}
            /\ last.pre_rec = None
            /\ Has(reg, last.id))
               => Get(reg, last.id).sync_status = "never"
        /\ (/\ last.op \in {"add", "clone", "update", "status", "multi_status"}
            /\ last.pre_rec # None
            /\ Has(reg, last.id))
               => Get(reg, last.id).sync_status = last.pre_rec[1].sync_status

C20_StatusReadOnly ==
    [][last'.op \in {"status", "multi_status"} =>
         /\ UNCHANGED <<repositories, store, clone>>
         /\ last'.ev = NoEvents
         /\ (last'.op = "status" /\ ~Has(repositories[last'.svc], last'.id))
                => last'.raised
      ]_vars

\* a status query on a clone with an uncommitted edit and a commit waiting
\* on the remote reported the edit and left the commit unfetched
C20_Witness ==
    /\ last.op = "status" /\ ~last.raised
    /\ last.result.report.exists
    /\ last.result.report.has_local_changes
    /\ last.result.report.behind_of_remote = 0
    /\ clone[Dir(last.pre_rec[1].local_path)].unfetched = 1

\* C15: start() changes nothing when the scheduler is already running or the
\* feature is disabled; at most one sync job is ever registered, and with the
\* feature disabled none is and the scheduler never runs.
C15_StartNoOp ==
    [][/\ (last'.op = "start" /\ (scheduler.is_running \/ ~scheduler.multi_enabled))
              => UNCHANGED <<scheduler, batch, repositories, store, clone>>
       /\ Cardinality(scheduler'.jobs) <= 1
       /\ ~scheduler'.multi_enabled
              => /\ scheduler'.jobs = {}
                 /\ ~scheduler'.is_running
                 /\ ~scheduler'.started
      ]_vars

\* start() was called on a scheduler that had already fired, and one job is
\* registered
C15_Witness ==
    /\ last.op = "start"
    /\ last.result.status = "already"
    /\ scheduler.jobs = {SyncJobId}
    /\ batch.attempted # <<>>

\* C16: start() on a scheduler that was never given a repository service
\* (with the feature enabled) raises a configuration error.
C16_StartUninitialisedRaises ==
    (/\ last.op = "start"
     /\ scheduler.multi_enabled
     /\ ~scheduler.repository_service)
        => last.raised

C18_EnabledOnly ==
    LET reg == repositories["sched"]
    IN  /\ \A id \in Range(batch.listed) : Has(reg, id) /\ Get(reg, id).enabled
        /\ (last.op = "fire" \/ batch.listed # <<>>) =>
               \A i \in DOMAIN reg : reg[i].enabled => reg[i].id \in Range(batch.listed)
        /\ (last.op = "sync" /\ last.svc = "sched" /\ last.pre_rec # None) =>
               last.pre_rec[1].enabled
        /\ \A i \in DOMAIN reg :
               ~reg[i].enabled =>
                   /\ reg[i].id \notin Range(batch.attempted)
                   /\ reg[i].sync_status = "never" /\ reg[i].last_synced = None
                   /\ Lookup(store.data, reg[i].id) = Some(reg[i])

\* a firing is over that synced the enabled repositories beside one that is
\* not enabled
C18_Witness ==
    /\ last.op = "sync" /\ last.svc = "sched"
    /\ ~batch.running
    /\ Len(batch.attempted) = 2
    /\ \E i \in DOMAIN repositories["sched"] : ~repositories["sched"][i].enabled
    /\ \A id \in Range(batch.attempted) :
           Get(repositories["sched"], id).sync_status # "never"

\* C19: in a firing, a sync that pulled at least one remote commit reports
\* files_changed > 0 and the firing invokes the reindex.
C19_ReindexOnChange ==
    (/\ last.op = "sync" /\ last.svc = "sched"
     /\ ~last.raised
     /\ last.result.status = "success"
     /\ last.result.commits_pulled > 0)
        => /\ last.result.files_changed > 0
           /\ batch.reindexed > 0

----------------------------------------------------------------------------
\* A process restarted over the store an earlier one left behind

\* RepositoryService.__init__ (lines 35-49): the registry of a new object is
\* what _load_repositories makes of the store; an unreadable store is logged
\* and nothing is raised
Restart(s) ==
    /\ repositories' = [repositories EXCEPT ![s] = Load(store)]
    /\ last' = Obs("load", s, "none", FALSE, None, NoResult,
                   IF store.ok THEN "none" ELSE "unreadable", NoEvents,
                   None, Seen(NoClone), None)
    /\ UNCHANGED <<store, clone, clock, batch, scheduler>>

\* the file is edited by hand and no longer parses: its records are still in
\* the text, json.load raises on it
StoreDamaged ==
    /\ store.ok /\ store.data # <<>>
    /\ store' = [store EXCEPT !.ok = FALSE]
    /\ last' = EnvObs
    /\ UNCHANGED <<repositories, clone, clock, batch, scheduler>>

InitLoad ==
    /\ \E earlier \in BOOLEAN :
           store = [ok |-> TRUE, data |-> IF earlier THEN <<EarlierRecord>> ELSE <<>>]
    /\ repositories = [s \in Services |-> IF s = "api" THEN Load(store) ELSE <<>>]
    /\ clone = [id \in RepoIds |-> NoClone]
    /\ clock = 0
    /\ batch = IdleBatch
    /\ scheduler = NewScheduler(TRUE)
    /\ last = EnvObs

NextLoad ==
    \/ Restart("api")
    \/ StoreDamaged
    \/ \E id \in RegIds, w \in WriteOutcomes :
           AddRepository("api", id, "wiki", LocalPath(id), TRUE, TRUE, w)
    \/ \E id \in RegIds, update \in RegUpdates :
           UpdateRepository("api", id, update, "ok")
    \/ \E id \in RegIds :
           RemoveRepository("api", id, TRUE, "ok")

SpecLoad == InitLoad /\ [][NextLoad]_vars

\* C21: a store that exists but cannot be read or parsed makes the load raise
\* a persistence error, and the registry does not start empty over the
\* records the store holds
C21_LoadFailureRaised ==
    (last.op = "load" /\ last.fault = "unreadable") =>
        /\ last.raised
        /\ (store.data # <<>> => repositories[last.svc] # <<>>)

----------------------------------------------------------------------------
\* C22: with a token configured, no remote_url of a registry record, in
\* memory or in the store, and no origin URL in the git configuration of a
\* local clone contains the token
C22_TokenNeverPersisted ==
    /\ \A s \in Services : \A i \in DOMAIN repositories[s] :
           ~Contains(repositories[s][i].remote_url, Token)
    /\ \A i \in DOMAIN store.data : ~Contains(store.data[i].remote_url, Token)
    /\ \A id \in RepoIds : ~clone[id].origin_token

\* C23: within one sync attempt, a failed fetch is followed by no pull or
\* merge, no move of the local branch ref and no push
C23_FetchFailureStops ==
    (last.op \in SyncOps /\ last.fault = "fetch") =>
        (~last.ev.pulled /\ ~last.ev.pushed)

\* the local branch had commits the remote lacks and the remote had commits
\* the local branch lacks
Diverged(seen) == seen.exists /\ seen.ahead > 0 /\ seen.remote_new > 0
\* the attempt set the branch ref to the tracking ref (lines 271-275), which
\* is the only way an attempt takes commits off the branch
RefReset == last.op = "sync" /\ last.ev.pulled

\* C24: a sync attempt on diverged history leaves every commit of the local
\* branch reachable from its tip: the ref is never moved to a commit that
\* does not descend from the previous tip
C24_NoLocalCommitLost ==
    (last.op \in SyncOps /\ Diverged(last.pre_git)) => ~RefReset

\* C25: an attempt that writes sync_status = "synced" leaves the local branch
\* not behind the actual remote tip and, for a writable record, not ahead
C25_SyncedMeansAgreement ==
    (last.op = "sync" /\ ~last.raised /\ last.result.status = "success") =>
        LET rec == Get(repositories[last.svc], last.id)
            g == clone[Dir(rec.local_path)]
        IN  rec.sync_status = "synced" =>
                /\ g.behind + g.unfetched = 0
                /\ (~rec.read_only => g.ahead = 0)

----------------------------------------------------------------------------
\* The interactive API and the scheduler side by side: the module-level
\* RepositoryService object of the routes and the one lifespan builds for
\* the scheduler, each loaded at startup, here over one and the same file

SharedIds == {"r1", "r2"}
SharedUpdates == {[enabled |-> FALSE], [read_only |-> TRUE]}

InitShared ==
    /\ \E enabled \in BOOLEAN :
           store = [ok |-> TRUE,
                    data |-> <<NewRecord("r1", "wiki", LocalPath("r1"), enabled, FALSE, 0)>>]
    /\ repositories = [s \in Services |-> Load(store)]
    /\ clone = [id \in RepoIds |-> IF id = "r1" THEN FreshClone(TRUE) ELSE NoClone]
    /\ clock = 0
    /\ batch = IdleBatch
    /\ scheduler = StartedScheduler
    /\ last = EnvObs

NextShared ==
    \/ Fire
    \/ BatchStep("none", "ok", "ok")
    \/ \E id \in SharedIds :
           AddRepository("api", id, "wiki", LocalPath(id), TRUE, TRUE, "ok")
    \/ \E id \in SharedIds, update \in SharedUpdates :
           UpdateRepository("api", id, update, "ok")
    \/ \E id \in SharedIds : RemoveRepository("api", id, TRUE, "ok")
    \/ \E id \in SharedIds : SyncRepository("api", id, "none", "ok", "ok")

SpecShared == InitShared /\ [][NextShared]_vars

\* C26: a scheduler firing lists exactly the records that are present and
\* enabled in the registry as the interactive API last left it
C26_OneRegistry ==
    last.op = "fire" => batch.listed = EnabledIds(repositories["api"])

----------------------------------------------------------------------------
\* The interval timer against a batch that takes longer than the interval

\* the interval elapses while a run is in progress: nothing is started
FireSkipped ==
    /\ scheduler.started /\ SyncJobId \in scheduler.jobs
    /\ ~FiringStarts
    /\ last' = SchedObs("fire", "skipped")
    /\ UNCHANGED <<repositories, store, clone, clock, batch, scheduler>>

NextTimer ==
    \/ Fire
    \/ FireSkipped
    \/ \E fault \in {"none", "config"} : BatchStep(fault, "ok", "ok")
    \/ \E id \in SyncIds : RemoteCommit(id)

SpecTimer == InitSched /\ [][NextTimer]_vars

----------------------------------------------------------------------------
MutatingOps == {"add", "clone", "update", "remove", "sync"}

\* C29: after a mutating registry call that returns normally a registry
\* loaded from the store equals the one in memory; after one that raised,
\* the record in memory is the one from before the call, so memory keeps no
\* change that the store lacks
C29_MemoryAndStoreAgree ==
    (last.op \in MutatingOps /\ last.svc = "api") =>
        /\ ~last.raised => Load(store) = repositories["api"]
        /\ last.raised => Lookup(repositories["api"], last.id) = last.pre_rec

----------------------------------------------------------------------------
StatusValues == {"never", "synced", "error"}
NeverIffNotSynced(rec) ==
    /\ (rec.last_synced = None) <=> (rec.sync_status = "never")
    /\ rec.sync_status \in StatusValues

====
